---- MODULE Spec2Model ----
(***************************************************************************)
(* Model of the JSON-to-PDF report pipeline of the automation package:     *)
(* load_json_dataset, the column classifier, generate_pdf_report and the   *)
(* ReportGui handlers that call them.                                      *)
(***************************************************************************)
EXTENDS Integers, Sequences, FiniteSets, TLC

VARIABLES
    fs,               \* input files: path -> parsed JSON document, or Absent
    clock,            \* local wall clock, in seconds
    dirExists,        \* config.report_dir exists
    files,            \* report_dir content: report name -> [run, finalized]
    pc,               \* position inside generate_pdf_report
    caller,           \* who called generate_pdf_report: "cli" or "gui"
    cfg_path,         \* config.json_path of the call in progress
    run,              \* number of generate_pdf_report calls made so far
    started,          \* clock value when the call in progress was entered
    df,               \* the DataFrame of the call in progress
    numeric_cols,     \* list(_numeric_columns(df))
    categorical_cols, \* list(_categorical_columns(df))
    report_path,      \* report_dir / report_name, as the timestamp digits
    idx,              \* loop position in the column loops
    exc,              \* exception propagating out of the call, or "none"
    pdf,              \* the PdfPages object: "none", "open" or "closed"
    pages,            \* pages appended to pdf, in order
    closes,           \* number of times pdf was closed in this call
    history,          \* one entry per call that computed a report name
    result,           \* path -> what a direct load_json_dataset call produced
    gui_path,         \* ReportGui._json_path
    path_var,         \* ReportGui.path_var
    status_var,       \* ReportGui.status_var
    gui_handle,       \* ReportGui._gui: 0 for None, else the viewer's number
    show,             \* whether pandasgui's show was imported
    shown             \* message boxes shown so far, in order

vars == <<fs, clock, dirExists, files, pc, caller, cfg_path, run, started, df,
          numeric_cols, categorical_cols, report_path, idx, exc, pdf, pages,
          closes, history, result, gui_path, path_var, status_var, gui_handle,
          show, shown>>

(***************************************************************************)
(* Bounds                                                                  *)
(***************************************************************************)
MaxRecords == 2        \* records per array in the loader specification
MaxRuns == 2           \* generate_pdf_report calls per behaviour
MaxTicks == 3          \* clock ticks per behaviour
ClockStart == 58       \* first clock value (two seconds before a minute ends)
MaxDialogs == 2        \* message boxes per behaviour
MaxOpens == 2          \* viewers opened per behaviour

Paths == {"p1", "p2"}

LoadKeys == {"a", "b"}
ReportKeys == {"a", "b", "c"}

\* JSON cell values, one per kind: 1, "A", true, null, NaN
Cells == {"int", "str", "bool", "null", "nan"}

\* the cell values of the several-record documents the report is run on
ReportCells == {"int", "str", "null", "nan"}

Absent == [kind |-> "absent", hasData |-> FALSE, inner |-> "none", items |-> <<>>]

(***************************************************************************)
(* JSON documents                                                          *)
(***************************************************************************)
\* A JSON object used as a record: its key/value pairs in document order.
Records(K, V) ==
    { r \in UNION { [1..n -> [k : K, v : V]] : n \in 0..Cardinality(K) } :
        \A i, j \in 1..Len(r) : i # j => r[i].k # r[j].k }

Arrays(K, V, n) == UNION { [1..m -> Records(K, V)] : m \in 0..n }

BareArray(a) == [kind |-> "list", hasData |-> FALSE, inner |-> "none", items |-> a]

WrappedArray(a) == [kind |-> "dict", hasData |-> TRUE, inner |-> "list", items |-> a]

\* Documents whose record value is not a list: a scalar, an object without
\* "data", and an object whose "data" is a scalar or another object.
NonListDocs ==
    { [kind |-> "scalar", hasData |-> FALSE, inner |-> "none", items |-> <<>>],
      [kind |-> "dict", hasData |-> FALSE, inner |-> "none", items |-> <<>>],
      [kind |-> "dict", hasData |-> TRUE, inner |-> "scalar", items |-> <<>>],
      [kind |-> "dict", hasData |-> TRUE, inner |-> "dict", items |-> <<>>] }

\* an array of records, bare or as the "data" of an object
ArrayDoc(wrapped, a) == IF wrapped THEN WrappedArray(a) ELSE BareArray(a)

(***************************************************************************)
(* DataFrame construction                                                  *)
(***************************************************************************)
EmptyFrame == [columns |-> <<>>, rows |-> <<>>, dtypes |-> <<>>]

SeqToSet(s) == { s[i] : i \in 1..Len(s) }

RECURSIVE AppendNew(_, _, _)
\* cols extended by the keys of record r from position i on, each once
AppendNew(cols, r, i) ==
    IF i > Len(r) THEN cols
    ELSE AppendNew(IF r[i].k \in SeqToSet(cols) THEN cols ELSE Append(cols, r[i].k),
                   r, i + 1)

RECURSIVE FirstSeenFrom(_, _, _)
FirstSeenFrom(cols, records, i) ==
    IF i > Len(records) THEN cols
    ELSE FirstSeenFrom(AppendNew(cols, records[i], 1), records, i + 1)

\* the union of the records' keys, in first-seen order
FirstSeen(records) == FirstSeenFrom(<<>>, records, 1)

\* the value of key k in record r; NaN fills a key the record lacks
Lookup(r, k) ==
    IF \E i \in 1..Len(r) : r[i].k = k
    THEN r[CHOOSE i \in 1..Len(r) : r[i].k = k].v
    ELSE "nan"

\* the dtype inferred for a column holding the cell kinds S
InferDtype(S) ==
    IF "str" \in S THEN "object"
    ELSE IF "bool" \in S THEN (IF S = {"bool"} THEN "bool" ELSE "object")
    ELSE IF S = {"null"} THEN "object"
    ELSE IF S = {"int"} THEN "int64"
    ELSE "float64"

from_records(records) ==
    LET cols == FirstSeen(records)
        rows == [i \in 1..Len(records) |->
                    [j \in 1..Len(cols) |-> Lookup(records[i], cols[j])]]
    IN [columns |-> cols,
        rows |-> rows,
        dtypes |-> [j \in 1..Len(cols) |->
                       InferDtype({ rows[i][j] : i \in 1..Len(rows) })]]

\* faulty variant: only the row count is looked at
FrameEmpty_rows_only(frame) == Len(frame.rows) = 0

\* DataFrame.empty: some axis has length 0
FrameEmpty(frame) == Len(frame.columns) = 0 \/ Len(frame.rows) = 0

\* faulty variant: the type check raises the type error instead
NotListError_type_error == "TypeError"

NotListError == "ValueError"

Raise(e) == [exc |-> e, frame |-> EmptyFrame]

\* faulty variant: the "data" key is never unwrapped
Unwrap_never(raw) == [kind |-> raw.kind, items |-> raw.items]

\* records = raw["data"] if raw is a dict with a "data" key, else raw
Unwrap(raw) ==
    IF raw.kind = "dict" /\ raw.hasData
    THEN [kind |-> raw.inner, items |-> raw.items]
    ELSE [kind |-> raw.kind, items |-> raw.items]

load_json_dataset(path) ==
    LET raw == fs[path]
        records == Unwrap(raw)
    IN IF raw.kind = "absent" THEN Raise("FileNotFoundError")
       ELSE IF records.kind # "list" THEN Raise(NotListError)
       ELSE IF records.items = <<>> THEN Raise("ValueError")
       ELSE LET frame == from_records(records.items)
            IN IF FrameEmpty(frame) THEN Raise("ValueError")
               ELSE [exc |-> "none", frame |-> frame]

(***************************************************************************)
(* Column classifier                                                       *)
(***************************************************************************)
RECURSIVE SelectFrom(_, _, _)
SelectFrom(frame, include, j) ==
    IF j > Len(frame.columns) THEN <<>>
    ELSE (IF frame.dtypes[j] \in include THEN <<frame.columns[j]>> ELSE <<>>)
         \o SelectFrom(frame, include, j + 1)

\* DataFrame.select_dtypes(include).columns
select_dtypes(frame, include) == SelectFrom(frame, include, 1)

NumberDtypes == {"int64", "float64"}

\* faulty variant: "bool" is left out of the include list
CategoricalDtypes_no_bool == {"object", "category"}

CategoricalDtypes == {"object", "category", "bool"}

_numeric_columns(frame) == select_dtypes(frame, NumberDtypes)

_categorical_columns(frame) == select_dtypes(frame, CategoricalDtypes)

(***************************************************************************)
(* Direct call of load_json_dataset                                        *)
(***************************************************************************)
GuiVars == <<gui_path, path_var, status_var, gui_handle, show, shown>>

NoResult == [exc |-> "not called", frame |-> EmptyFrame]

\* load_json_dataset(p) called on its own; its outcome is kept in result
LoadCall(p) ==
    /\ result[p] = NoResult
    /\ result' = [result EXCEPT ![p] = load_json_dataset(p)]
    /\ UNCHANGED <<fs, clock, dirExists, files, pc, caller, cfg_path, run,
                   started, df, numeric_cols, categorical_cols, report_path,
                   idx, exc, pdf, pages, closes, history>>
    /\ UNCHANGED GuiVars

(***************************************************************************)
(* generate_pdf_report, step by step                                       *)
(***************************************************************************)
NoPath == <<>>

\* faulty variant: the format stops at the minute ("%Y%m%d_%H%M")
strftime_minutes(t) ==
    LET h == (t \div 3600) % 24
        m == (t \div 60) % 60
    IN <<h \div 10, h % 10, m \div 10, m % 10>>

\* datetime.now().strftime("%Y%m%d_%H%M%S") within one day: the digits of
\* the hour, minute and second fields, each zero-padded to two digits
strftime(t) ==
    LET h == (t \div 3600) % 24
        m == (t \div 60) % 60
        s == t % 60
    IN <<h \div 10, h % 10, m \div 10, m % 10, s \div 10, s % 10>>

TitlePage == [kind |-> "title", col |-> "-"]

CorrelationPage == [kind |-> "correlation", col |-> "-"]

FallbackPage == [kind |-> "fallback", col |-> "-"]

ColumnIndex(frame, column) ==
    CHOOSE j \in 1..Len(frame.columns) : frame.columns[j] = column

IsMissing(cell) == cell \in {"null", "nan"}

\* df[column].dropna().empty
SeriesEmpty(frame, column) ==
    \A i \in 1..Len(frame.rows) : IsMissing(frame.rows[i][ColumnIndex(frame, column)])

\* pages _plot_numeric_column appends for one column
_plot_numeric_column(frame, column) ==
    IF SeriesEmpty(frame, column) THEN <<>>
    ELSE <<[kind |-> "numeric", col |-> column]>>

\* pages _plot_categorical_column appends for one column
_plot_categorical_column(frame, column) ==
    IF SeriesEmpty(frame, column) THEN <<>>
    ELSE <<[kind |-> "categorical", col |-> column]>>

\* faulty variant: the guard is len(numeric_cols) < 1
_plot_correlation_heatmap_one(cols) ==
    IF Len(cols) < 1 THEN <<>> ELSE <<[kind |-> "correlation", col |-> "-"]>>

\* pages _plot_correlation_heatmap appends
_plot_correlation_heatmap(cols) ==
    IF Len(cols) < 2 THEN <<>> ELSE <<CorrelationPage>>

\* faulty variant: "or" in place of "and"
NoPlots_or(ncols, ccols) == ncols = <<>> \/ ccols = <<>>

\* the condition of the fallback branch
NoPlots(ncols, ccols) == ncols = <<>> /\ ccols = <<>>

\* where control goes once the numeric block is over
AfterNumeric(ccols) == IF ccols # <<>> THEN "categorical" ELSE "fallback"

\* entry into generate_pdf_report(config) with config.json_path = p
Enter(who, p) ==
    /\ pc = "idle"
    /\ pc' = "load"
    /\ caller' = who
    /\ cfg_path' = p
    /\ run' = run + 1
    /\ started' = clock
    /\ df' = EmptyFrame
    /\ numeric_cols' = <<>>
    /\ categorical_cols' = <<>>
    /\ report_path' = NoPath
    /\ idx' = 1
    /\ exc' = "none"
    /\ pdf' = "none"
    /\ pages' = <<>>
    /\ closes' = 0
    /\ UNCHANGED <<fs, clock, dirExists, files, history, result>>

\* run_from_cli: the command line calls generate_pdf_report
CliCall ==
    /\ \E p \in DOMAIN fs : Enter("cli", p)
    /\ UNCHANGED GuiVars

\* df = load_json_dataset(config.json_path) returns
LoadOk ==
    /\ pc = "load"
    /\ load_json_dataset(cfg_path).exc = "none"
    /\ df' = load_json_dataset(cfg_path).frame
    /\ pc' = "mkdir"
    /\ UNCHANGED <<fs, clock, dirExists, files, caller, cfg_path, run, started,
                   numeric_cols, categorical_cols, report_path, idx, exc, pdf,
                   pages, closes, history, result>>
    /\ UNCHANGED GuiVars

\* faulty variant: the directory is made before the dataset is loaded
LoadRaise_after_mkdir ==
    /\ pc = "load"
    /\ load_json_dataset(cfg_path).exc # "none"
    /\ exc' = load_json_dataset(cfg_path).exc
    /\ pc' = "raised"
    /\ dirExists' = TRUE
    /\ UNCHANGED <<fs, clock, files, caller, cfg_path, run, started,
                   df, numeric_cols, categorical_cols, report_path, idx, pdf,
                   pages, closes, history, result, gui_path, path_var,
                   status_var, gui_handle, show, shown>>

\* df = load_json_dataset(config.json_path) raises
LoadRaise ==
    /\ pc = "load"
    /\ load_json_dataset(cfg_path).exc # "none"
    /\ exc' = load_json_dataset(cfg_path).exc
    /\ pc' = "raised"
    /\ UNCHANGED <<fs, clock, dirExists, files, caller, cfg_path, run, started,
                   df, numeric_cols, categorical_cols, report_path, idx, pdf,
                   pages, closes, history, result>>
    /\ UNCHANGED GuiVars

\* config.report_dir.mkdir(parents=True, exist_ok=True)
Mkdir ==
    /\ pc = "mkdir"
    /\ \/ /\ dirExists' = TRUE
          /\ pc' = "stamp"
          /\ exc' = exc
       \/ /\ ~dirExists
          /\ dirExists' = dirExists
          /\ pc' = "raised"
          /\ exc' = "OSError"
    /\ UNCHANGED <<fs, clock, files, caller, cfg_path, run, started, df,
                   numeric_cols, categorical_cols, report_path, idx, pdf,
                   pages, closes, history, result>>
    /\ UNCHANGED GuiVars

\* timestamp = datetime.now().strftime(...); report_path = report_dir / name
Timestamp ==
    /\ pc = "stamp"
    /\ report_path' = strftime(clock)
    /\ history' = Append(history, [run |-> run, start |-> started, sec |-> clock,
                                   name |-> strftime(clock), opened |-> FALSE])
    /\ pc' = "classify"
    /\ UNCHANGED <<fs, clock, dirExists, files, caller, cfg_path, run, started,
                   df, numeric_cols, categorical_cols, idx, exc, pdf, pages,
                   closes, result>>
    /\ UNCHANGED GuiVars

\* numeric_cols = list(_numeric_columns(df)); categorical_cols likewise
Classify ==
    /\ pc = "classify"
    /\ numeric_cols' = _numeric_columns(df)
    /\ categorical_cols' = _categorical_columns(df)
    /\ pc' = "open"
    /\ UNCHANGED <<fs, clock, dirExists, files, caller, cfg_path, run, started,
                   df, report_path, idx, exc, pdf, pages, closes, history,
                   result>>
    /\ UNCHANGED GuiVars

\* PdfPages(report_path): the file is created, or truncated if it exists
Open ==
    /\ pc = "open"
    /\ pdf' = "open"
    /\ files' = (report_path :> [run |-> run, finalized |-> FALSE]) @@ files
    /\ history' = [history EXCEPT ![Len(history)].opened = TRUE]
    /\ pc' = "title"
    /\ UNCHANGED <<fs, clock, dirExists, caller, cfg_path, run, started, df,
                   numeric_cols, categorical_cols, report_path, idx, exc,
                   pages, closes, result>>
    /\ UNCHANGED GuiVars

\* _add_title_page(pdf, config, df)
AddTitlePage ==
    /\ pc = "title"
    /\ pages' = Append(pages, TitlePage)
    /\ idx' = 1
    /\ pc' = IF numeric_cols # <<>> THEN "numeric" ELSE AfterNumeric(categorical_cols)
    /\ UNCHANGED <<fs, clock, dirExists, files, caller, cfg_path, run, started,
                   df, numeric_cols, categorical_cols, report_path, exc, pdf,
                   closes, history, result>>
    /\ UNCHANGED GuiVars

\* one turn of: for column in numeric_cols: _plot_numeric_column(...)
NumericPage ==
    /\ pc = "numeric"
    /\ pages' = pages \o _plot_numeric_column(df, numeric_cols[idx])
    /\ idx' = IF idx = Len(numeric_cols) THEN 1 ELSE idx + 1
    /\ pc' = IF idx = Len(numeric_cols) THEN "corr" ELSE "numeric"
    /\ UNCHANGED <<fs, clock, dirExists, files, caller, cfg_path, run, started,
                   df, numeric_cols, categorical_cols, report_path, exc, pdf,
                   closes, history, result>>
    /\ UNCHANGED GuiVars

\* _plot_correlation_heatmap(pdf, df, numeric_cols)
Correlation ==
    /\ pc = "corr"
    /\ pages' = pages \o _plot_correlation_heatmap(numeric_cols)
    /\ pc' = AfterNumeric(categorical_cols)
    /\ UNCHANGED <<fs, clock, dirExists, files, caller, cfg_path, run, started,
                   df, numeric_cols, categorical_cols, report_path, idx, exc,
                   pdf, closes, history, result>>
    /\ UNCHANGED GuiVars

\* one turn of: for column in categorical_cols: _plot_categorical_column(...)
CategoricalPage ==
    /\ pc = "categorical"
    /\ pages' = pages \o _plot_categorical_column(df, categorical_cols[idx])
    /\ idx' = IF idx = Len(categorical_cols) THEN 1 ELSE idx + 1
    /\ pc' = IF idx = Len(categorical_cols) THEN "fallback" ELSE "categorical"
    /\ UNCHANGED <<fs, clock, dirExists, files, caller, cfg_path, run, started,
                   df, numeric_cols, categorical_cols, report_path, exc, pdf,
                   closes, history, result>>
    /\ UNCHANGED GuiVars

\* if not numeric_cols and not categorical_cols: the fallback page
Fallback ==
    /\ pc = "fallback"
    /\ pages' = IF NoPlots(numeric_cols, categorical_cols)
                THEN Append(pages, FallbackPage) ELSE pages
    /\ pc' = "exit"
    /\ UNCHANGED <<fs, clock, dirExists, files, caller, cfg_path, run, started,
                   df, numeric_cols, categorical_cols, report_path, idx, exc,
                   pdf, closes, history, result>>
    /\ UNCHANGED GuiVars

\* a page renderer raises inside the with block (plotting or savefig fails)
RenderRaise ==
    /\ pc \in {"title", "numeric", "corr", "categorical", "fallback"}
    /\ exc' = "RenderError"
    /\ pc' = "exit"
    /\ UNCHANGED <<fs, clock, dirExists, files, caller, cfg_path, run, started,
                   df, numeric_cols, categorical_cols, report_path, idx, pdf,
                   pages, closes, history, result>>
    /\ UNCHANGED GuiVars

\* faulty variant: no with block, so close() is skipped when a renderer raised
ExitWith_close_on_success_only ==
    /\ pc = "exit"
    /\ pdf' = IF exc = "none" THEN "closed" ELSE pdf
    /\ closes' = IF exc = "none" THEN closes + 1 ELSE closes
    /\ files' = [files EXCEPT ![report_path].finalized = (exc = "none")]
    /\ pc' = IF exc = "none" THEN "return" ELSE "raised"
    /\ UNCHANGED <<fs, clock, dirExists, caller, cfg_path, run, started, df,
                   numeric_cols, categorical_cols, report_path, idx, exc,
                   pages, history, result, gui_path, path_var, status_var,
                   gui_handle, show, shown>>

\* leaving the with block: PdfPages.__exit__ closes the document, then the
\* pending exception, if any, goes on to the caller
ExitWith ==
    /\ pc = "exit"
    /\ pdf' = "closed"
    /\ closes' = closes + 1
    /\ files' = [files EXCEPT ![report_path].finalized = TRUE]
    /\ pc' = IF exc = "none" THEN "return" ELSE "raised"
    /\ UNCHANGED <<fs, clock, dirExists, caller, cfg_path, run, started, df,
                   numeric_cols, categorical_cols, report_path, idx, exc,
                   pages, history, result>>
    /\ UNCHANGED GuiVars

\* return report_path
Return ==
    /\ pc = "return"
    /\ pc' = "done"
    /\ UNCHANGED <<fs, clock, dirExists, files, caller, cfg_path, run, started,
                   df, numeric_cols, categorical_cols, report_path, idx, exc,
                   pdf, pages, closes, history, result>>
    /\ UNCHANGED GuiVars

\* main(): the path is printed, or the exception ends the process
CliExit ==
    /\ pc \in {"done", "raised"}
    /\ caller = "cli"
    /\ pc' = "exited"
    /\ UNCHANGED <<fs, clock, dirExists, files, caller, cfg_path, run, started,
                   df, numeric_cols, categorical_cols, report_path, idx, exc,
                   pdf, pages, closes, history, result>>
    /\ UNCHANGED GuiVars

\* the wall clock moves on by one second
Tick ==
    /\ clock < ClockStart + MaxTicks
    /\ clock' = clock + 1
    /\ UNCHANGED <<fs, dirExists, files, pc, caller, cfg_path, run, started, df,
                   numeric_cols, categorical_cols, report_path, idx, exc, pdf,
                   pages, closes, history, result>>
    /\ UNCHANGED GuiVars

Step ==
    \/ LoadOk
    \/ LoadRaise
    \/ Mkdir
    \/ Timestamp
    \/ Classify
    \/ Open
    \/ AddTitlePage
    \/ NumericPage
    \/ Correlation
    \/ CategoricalPage
    \/ Fallback
    \/ RenderRaise
    \/ ExitWith
    \/ Return

(***************************************************************************)
(* Specifications                                                          *)
(***************************************************************************)
InitCall ==
    /\ clock = ClockStart
    /\ dirExists = FALSE
    /\ files = <<>>
    /\ pc = "idle"
    /\ caller = "cli"
    /\ cfg_path = "p1"
    /\ run = 0
    /\ started = ClockStart
    /\ df = EmptyFrame
    /\ numeric_cols = <<>>
    /\ categorical_cols = <<>>
    /\ report_path = NoPath
    /\ idx = 1
    /\ exc = "none"
    /\ pdf = "none"
    /\ pages = <<>>
    /\ closes = 0
    /\ history = <<>>
    /\ result = [p \in DOMAIN fs |-> NoResult]

InitGui ==
    /\ gui_path = "None"
    /\ path_var = "(none)"
    /\ status_var = "Select a JSON dataset to begin."
    /\ gui_handle = 0
    /\ shown = <<>>

\* the "data"-wrapped form of a bare array, at the second path
Twin(d) == IF d.kind = "list" THEN WrappedArray(d.items) ELSE Absent

\* the loader on every document of up to MaxRecords records over LoadKeys:
\* p1 holds the document and p2 the wrapped form of the same array
InitLoad ==
    /\ \E d \in NonListDocs \cup {Absent}
                  \cup { BareArray(a) : a \in Arrays(LoadKeys, Cells, MaxRecords) } :
          fs = [p \in Paths |-> IF p = "p1" THEN d ELSE Twin(d)]
    /\ InitCall
    /\ InitGui
    /\ show = TRUE

NextLoad == \E p \in DOMAIN fs : LoadCall(p)

SpecLoad == InitLoad /\ [][NextLoad]_vars

\* the documents the report pipeline is run on: the arrays of up to
\* MaxRecords records over LoadKeys, whose columns mix present and missing
\* values, and the one-record documents over ReportKeys, which give every
\* mix of up to three columns
ReportDocs ==
    NonListDocs \cup {Absent}
                \cup { BareArray(a) : a \in Arrays(LoadKeys, ReportCells, MaxRecords) }
                \cup { ArrayDoc(w, <<r>>) : w \in BOOLEAN, r \in Records(ReportKeys, Cells) }

\* one run of the command line on one input file
Init ==
    /\ fs \in [{"p1"} -> ReportDocs]
    /\ InitCall
    /\ InitGui
    /\ show = TRUE

Next == CliCall \/ Step \/ CliExit

Spec == Init /\ [][Next]_vars

\* the records of tests/data/sample_data.json's shape: a number and a text
SampleDoc ==
    BareArray(<< <<[k |-> "a", v |-> "int"], [k |-> "b", v |-> "str"]>>,
                 <<[k |-> "a", v |-> "int"], [k |-> "b", v |-> "str"]>> >>)

NotAList == [kind |-> "dict", hasData |-> FALSE, inner |-> "none", items |-> <<>>]

\* the command line is started again after it has exited
Relaunch ==
    /\ pc = "exited"
    /\ run < MaxRuns
    /\ pc' = "idle"
    /\ UNCHANGED <<fs, clock, dirExists, files, caller, cfg_path, run, started,
                   df, numeric_cols, categorical_cols, report_path, idx, exc,
                   pdf, pages, closes, history, result>>
    /\ UNCHANGED GuiVars

\* repeated runs of the command line on the same input while time passes
InitRerun ==
    /\ fs \in [{"p1"} -> {SampleDoc, NotAList}]
    /\ InitCall
    /\ InitGui
    /\ show = TRUE

NextRerun == CliCall \/ Step \/ CliExit \/ Relaunch \/ Tick

SpecRerun == InitRerun /\ [][NextRerun]_vars

(***************************************************************************)
(* ReportGui                                                               *)
(***************************************************************************)
CallVars == <<clock, dirExists, files, pc, caller, cfg_path, run, started, df,
              numeric_cols, categorical_cols, report_path, idx, exc, pdf,
              pages, closes, history, result>>

\* the handlers stop once MaxDialogs boxes were shown or MaxOpens viewers opened
GuiBounded == Len(shown) < MaxDialogs /\ gui_handle < MaxOpens

\* _show_in_pandasgui(dataset), after the boxes in shown0
ShowInPandasGui(shown0) ==
    IF ~show
    THEN /\ shown' = Append(shown0, "PandasGUI not available")
         /\ status_var' = "PandasGUI puuttuu."
         /\ gui_handle' = gui_handle
    ELSE /\ gui_handle' = gui_handle + 1
         /\ status_var' = "Dataset opened in PandasGUI."
         /\ shown' = shown0

\* faulty variant: self._json_path and path_var are assigned before the load
set_dataset_assign_first(path) ==
    /\ gui_path' = path
    /\ path_var' = path
    /\ \/ /\ load_json_dataset(path).exc # "none"
          /\ shown' = Append(shown, "Failed to load dataset")
          /\ status_var' = "Dataset loading failed."
          /\ UNCHANGED gui_handle
       \/ /\ load_json_dataset(path).exc = "none"
          /\ ShowInPandasGui(shown)

\* set_dataset(path)
set_dataset(path) ==
    \/ /\ load_json_dataset(path).exc # "none"
       /\ shown' = Append(shown, "Failed to load dataset")
       /\ status_var' = "Dataset loading failed."
       /\ UNCHANGED <<gui_path, path_var, gui_handle>>
    \/ /\ load_json_dataset(path).exc = "none"
       /\ gui_path' = path
       /\ path_var' = path
       /\ ShowInPandasGui(shown)

\* browse(): the user picks a file in the dialog
Browse ==
    /\ pc = "idle"
    /\ GuiBounded
    /\ \E p \in DOMAIN fs : set_dataset(p)
    /\ UNCHANGED <<fs, show>>
    /\ UNCHANGED CallVars

\* open_in_gui()
OpenInGui ==
    /\ pc = "idle"
    /\ GuiBounded
    /\ \/ /\ gui_path = "None"
          /\ shown' = Append(shown, "No dataset")
          /\ UNCHANGED <<gui_path, path_var, status_var, gui_handle>>
       \/ /\ gui_path # "None"
          /\ load_json_dataset(gui_path).exc # "none"
          /\ shown' = Append(shown, "Failed to load dataset")
          /\ status_var' = "Dataset loading failed."
          /\ UNCHANGED <<gui_path, path_var, gui_handle>>
       \/ /\ gui_path # "None"
          /\ load_json_dataset(gui_path).exc = "none"
          /\ ShowInPandasGui(shown)
          /\ UNCHANGED <<gui_path, path_var>>
    /\ UNCHANGED <<fs, show>>
    /\ UNCHANGED CallVars

\* generate_report(), up to the call of generate_pdf_report
GenerateReport ==
    /\ pc = "idle"
    /\ GuiBounded
    /\ \/ /\ gui_path = "None"
          /\ shown' = Append(shown, "No dataset")
          /\ UNCHANGED <<fs, gui_path, path_var, status_var, gui_handle, show>>
          /\ UNCHANGED CallVars
       \/ /\ gui_path # "None"
          /\ run < MaxRuns
          /\ Enter("gui", gui_path)
          /\ UNCHANGED GuiVars

\* generate_report(), once generate_pdf_report has returned or raised
ReportReturned ==
    /\ caller = "gui"
    /\ \/ /\ pc = "raised"
          /\ shown' = Append(shown, "Report generation failed")
          /\ status_var' = "Report generation failed."
       \/ /\ pc = "done"
          /\ shown' = Append(shown, "Report generated")
          /\ status_var' = "Report saved"
    /\ pc' = "idle"
    /\ UNCHANGED <<fs, clock, dirExists, files, caller, cfg_path, run, started,
                   df, numeric_cols, categorical_cols, report_path, idx, exc,
                   pdf, pages, closes, history, result>>
    /\ UNCHANGED <<gui_path, path_var, gui_handle, show>>

GuiDocs == {SampleDoc, NotAList, Absent}

\* between two handlers the files change on disk
EnvWrite ==
    /\ pc = "idle"
    /\ \E p \in DOMAIN fs, d \in GuiDocs :
          /\ d # fs[p]
          /\ fs' = [fs EXCEPT ![p] = d]
    /\ UNCHANGED CallVars
    /\ UNCHANGED GuiVars

\* the window as launch_gui() builds it without an initial dataset; with
\* one, __init__ ends with the set_dataset step that Browse takes from here
InitWindow ==
    /\ fs \in [Paths -> GuiDocs]
    /\ InitCall
    /\ InitGui
    /\ show \in BOOLEAN

NextGui == Browse \/ OpenInGui \/ GenerateReport \/ Step \/ ReportReturned \/ EnvWrite

SpecGui == InitWindow /\ [][NextGui]_vars

(***************************************************************************)
(* Properties                                                              *)
(***************************************************************************)
Last(s) == s[Len(s)]

IsPrefix(s, t) == Len(s) <= Len(t) /\ \A i \in 1..Len(s) : s[i] = t[i]

Kinds(ps) == { ps[i].kind : i \in 1..Len(ps) }

\* the columns of frame whose inferred dtype is in D, as column positions
ColumnsOfKind(frame, D) == { j \in 1..Len(frame.columns) : frame.dtypes[j] \in D }

\* column j of frame has a value that is not missing
HasValues(frame, j) == \E i \in 1..Len(frame.rows) : ~IsMissing(frame.rows[i][j])

RECURSIVE ColumnPages(_, _, _, _)
\* one page of the given kind per column of J with values, in column order
ColumnPages(frame, J, kind, j) ==
    IF j > Len(frame.columns) THEN <<>>
    ELSE (IF j \in J /\ HasValues(frame, j)
          THEN <<[kind |-> kind, col |-> frame.columns[j]]>> ELSE <<>>)
         \o ColumnPages(frame, J, kind, j + 1)

\* the document C1 describes for a loaded dataset
ExpectedPages(frame) ==
    LET N == ColumnsOfKind(frame, {"int64", "float64"})
        C == ColumnsOfKind(frame, {"object", "bool"})
    IN <<TitlePage>>
       \o ColumnPages(frame, N, "numeric", 1)
       \o (IF Cardinality(N) >= 2 THEN <<CorrelationPage>> ELSE <<>>)
       \o ColumnPages(frame, C, "categorical", 1)
       \o (IF N = {} /\ C = {} THEN <<FallbackPage>> ELSE <<>>)

\* the call is past the with block without an exception
Completed == pc \in {"return", "done"} \/ (pc = "exited" /\ exc = "none")

\* C1: a completed report holds exactly the title page, one page per numeric
\* column with values in column order, the correlation page iff there are at
\* least two numeric columns, one page per categorical column with values in
\* column order, and the fallback page when there is no column of either
\* kind; while the report is being written its pages are a prefix of that.
C1_PageOrder ==
    /\ Completed => pages = ExpectedPages(df)
    /\ pdf # "none" => IsPrefix(pages, ExpectedPages(df))

\* C1 witness: a completed report over three columns with numeric pages, the
\* correlation page and a categorical page, and one over a skipped column
C1_Witness ==
    /\ pc = "done"
    /\ Len(df.columns) = 3
    /\ Kinds(pages) = {"title", "numeric", "correlation", "categorical"}
    /\ Len(pages) = 4

FallbackCount(ps) == Cardinality({ i \in 1..Len(ps) : ps[i].kind = "fallback" })

\* C2: no report holds the fallback page together with a numeric, categorical
\* or correlation page, and a completed report holds the fallback page, once,
\* exactly when both column lists are empty.
C2_FallbackExclusive ==
    /\ ~("fallback" \in Kinds(pages)
         /\ Kinds(pages) \cap {"numeric", "categorical", "correlation"} # {})
    /\ FallbackCount(pages) <= 1
    /\ Completed =>
         (FallbackCount(pages) = 1 <=> (numeric_cols = <<>> /\ categorical_cols = <<>>))

\* C2 witness: a completed report whose fallback step ran with only one of
\* the two lists empty and added nothing
C2_Witness ==
    /\ pc = "done"
    /\ numeric_cols # <<>>
    /\ categorical_cols = <<>>
    /\ "numeric" \in Kinds(pages)
    /\ FallbackCount(pages) = 0

\* C3: a document whose value, after unwrapping "data", is not a list makes
\* load_json_dataset raise ValueError and return no Dataset.
C3_NonListRejected ==
    \A p \in DOMAIN fs :
        (result[p] # NoResult /\ fs[p] \in NonListDocs)
            => result[p] = [exc |-> "ValueError", frame |-> EmptyFrame]

\* C3 witness: the loader was called on an object without a "data" key
C3_Witness ==
    /\ fs["p1"].kind = "dict"
    /\ ~fs["p1"].hasData
    /\ result["p1"].exc = "ValueError"

\* the document is an array (bare or wrapped) that is empty or holds only
\* empty objects
NoCells(d) ==
    /\ d.kind = "list" \/ (d.kind = "dict" /\ d.hasData /\ d.inner = "list")
    /\ \A i \in 1..Len(d.items) : d.items[i] = <<>>

\* C4: an empty array, or one whose records give no column, makes
\* load_json_dataset raise ValueError; every Dataset it returns has at least
\* one row and one column.
C4_EmptyRejected ==
    \A p \in DOMAIN fs :
        /\ (result[p] # NoResult /\ NoCells(fs[p])) => result[p].exc = "ValueError"
        /\ result[p].exc = "none" =>
              (Len(result[p].frame.rows) >= 1 /\ Len(result[p].frame.columns) >= 1)

\* C4 witness: the loader was called on a wrapped array of two empty objects
C4_Witness ==
    /\ fs["p2"].hasData
    /\ fs["p2"].items = << <<>>, <<>> >>
    /\ result["p2"].exc = "ValueError"

HasKey(r, k) == \E i \in 1..Len(r) : r[i].k = k

\* the place where key k is first seen in the array a: (record, position)
FirstAt(a, k) ==
    LET i == CHOOSE i \in 1..Len(a) :
                 HasKey(a[i], k) /\ \A h \in 1..(i - 1) : ~HasKey(a[h], k)
    IN <<i, CHOOSE j \in 1..Len(a[i]) : a[i][j].k = k>>

Before(x, y) == x[1] < y[1] \/ (x[1] = y[1] /\ x[2] < y[2])

\* frame is the table of the array a
TableOf(frame, a) ==
    /\ SeqToSet(frame.columns) = UNION { { a[i][j].k : j \in 1..Len(a[i]) } : i \in 1..Len(a) }
    /\ \A x, y \in 1..Len(frame.columns) :
          x < y => Before(FirstAt(a, frame.columns[x]), FirstAt(a, frame.columns[y]))
    /\ Len(frame.rows) = Len(a)
    /\ \A i \in 1..Len(a) :
          /\ Len(frame.rows[i]) = Len(frame.columns)
          /\ \A x \in 1..Len(frame.columns) :
                IF HasKey(a[i], frame.columns[x])
                THEN \E j \in 1..Len(a[i]) :
                        a[i][j] = [k |-> frame.columns[x], v |-> frame.rows[i][x]]
                ELSE frame.rows[i][x] = "nan"

\* C8: for an array that loads, the table's columns are the union of the
\* records' keys in first-seen order, it has one row per record, a record
\* lacking a key has a missing value there, and the bare and the wrapped form
\* of the array give the same table.
C8_TableOfRecords ==
    /\ \A p \in DOMAIN fs :
          result[p].exc = "none" => TableOf(result[p].frame, fs[p].items)
    /\ (result["p1"] # NoResult /\ result["p2"] # NoResult /\ fs["p1"].kind = "list")
          => result["p1"] = result["p2"]

\* C8 witness: both forms of a two-record array whose second record brings a
\* new key and lacks the first one's were loaded
C8_Witness ==
    /\ fs["p1"].kind = "list"
    /\ Len(fs["p1"].items) = 2
    /\ result["p1"].exc = "none"
    /\ result["p2"].exc = "none"
    /\ Len(result["p2"].frame.columns) = 2
    /\ result["p2"].frame.rows[1][2] = "nan"
    /\ result["p2"].frame.rows[2][1] = "nan"

\* the document does not load
Unloadable(d) == d.kind = "absent" \/ d \in NonListDocs \/ NoCells(d)

\* C5: when the loader fails inside generate_pdf_report the call ends with
\* the loader's error and nothing was produced: no directory, no report
\* name, no file, no document and no page.
C5_LoaderFailureFirst ==
    (Unloadable(fs[cfg_path]) /\ pc \notin {"idle", "load"}) =>
        /\ pc \in {"raised", "exited"}
        /\ exc = IF fs[cfg_path].kind = "absent" THEN "FileNotFoundError" ELSE "ValueError"
        /\ ~dirExists
        /\ report_path = NoPath
        /\ history = <<>>
        /\ files = <<>>
        /\ pdf = "none"
        /\ pages = <<>>

\* C5 witness: the call ended on a missing source file
C5_Witness ==
    /\ pc = "raised"
    /\ exc = "FileNotFoundError"
    /\ fs[cfg_path].kind = "absent"

\* positions in frame.columns of the names in cols increase strictly
InColumnOrder(frame, cols) ==
    /\ SeqToSet(cols) \subseteq SeqToSet(frame.columns)
    /\ \A x, y \in 1..Len(cols) :
          x < y => ColumnIndex(frame, cols[x]) < ColumnIndex(frame, cols[y])

\* every value of column j of frame is of the cell kind c
AllOf(frame, j, c) == \A i \in 1..Len(frame.rows) : frame.rows[i][j] = c

\* C7: the two lists of the classifier are disjoint, each lists columns of
\* the Dataset once and in column order, integer and floating-point columns
\* are in the numeric list, textual, boolean and object columns in the
\* categorical list.
C7_Classifier ==
    (pc = "open" \/ pdf # "none") =>
        /\ SeqToSet(numeric_cols) \cap SeqToSet(categorical_cols) = {}
        /\ InColumnOrder(df, numeric_cols)
        /\ InColumnOrder(df, categorical_cols)
        /\ \A j \in 1..Len(df.columns) :
              /\ df.dtypes[j] \in {"int64", "float64"}
                    => df.columns[j] \in SeqToSet(numeric_cols)
              /\ df.dtypes[j] \in {"object", "bool"}
                    => df.columns[j] \in SeqToSet(categorical_cols)
              /\ AllOf(df, j, "int") => df.columns[j] \in SeqToSet(numeric_cols)
              /\ (AllOf(df, j, "str") \/ AllOf(df, j, "bool"))
                    => df.columns[j] \in SeqToSet(categorical_cols)

\* C7 witness: a classified Dataset whose columns are, in this order, text,
\* integer and boolean
C7_Witness ==
    /\ pc = "open"
    /\ Len(df.columns) = 3
    /\ AllOf(df, 1, "str") /\ AllOf(df, 2, "int") /\ AllOf(df, 3, "bool")
    /\ Len(numeric_cols) = 1
    /\ Len(categorical_cols) = 2

\* C10, the states: a page exists only in an opened document, the document
\* is closed at most once, and once the with block is left it is closed,
\* exactly once, before the call returns or raises.
C10_States ==
    /\ pages # <<>> => pdf # "none"
    /\ closes <= 1
    /\ (pdf = "closed") <=> (closes = 1)
    /\ (pc \in {"return", "done"} \/ (pc = "raised" /\ exc = "RenderError"))
          => (pdf = "closed" /\ closes = 1)
    /\ pdf = "open" => pc \in {"title", "numeric", "corr", "categorical", "fallback", "exit"}

\* C10, the steps: a page is appended only to an open document that stays
\* open, and a closed document is not opened again within the call.
C10_Steps ==
    /\ Len(pages') > Len(pages) => (pdf = "open" /\ pdf' = "open")
    /\ (pdf = "closed" /\ pc' # "load") => (pdf' = "closed" /\ pages' = pages)

\* C10: once opened, the document is closed exactly once on every exit from
\* the call, also when a renderer raises midway, and no page is appended
\* before it is opened or after it is closed.
C10_ClosedOnce == [](C10_States) /\ [][C10_Steps]_vars

\* C10 witness: a renderer raised after the first page and the call ended
\* with the document closed once
C10_Witness ==
    /\ pc = "raised"
    /\ exc = "RenderError"
    /\ pages # <<>>
    /\ pdf = "closed"
    /\ closes = 1

\* the history entries of the runs that opened their report file
Opened == { i \in 1..Len(history) : history[i].opened }

\* the report file of history entry i is still the one that run wrote
InPlace(i) ==
    /\ history[i].name \in DOMAIN files
    /\ files[history[i].name].run = history[i].run

\* C6 as stated: two runs that started in different seconds write to
\* different paths, and the earlier report stays in place.
C6_ByStartSecond ==
    \A i, j \in Opened :
        (i < j /\ history[i].start # history[j].start)
            => (history[i].name # history[j].name /\ InPlace(i))

\* C6 amended: two runs that computed their report name in different seconds
\* write to different paths, and a report stays in place unless a later run
\* computed its name in the same second.
C6_ByNameSecond ==
    /\ \A i, j \in Opened :
          (i < j /\ history[i].sec # history[j].sec)
              => history[i].name # history[j].name
    /\ \A i \in Opened :
          (\A j \in Opened : j > i => history[j].sec # history[i].sec) => InPlace(i)

\* C6 witness: two runs named in different seconds, both reports in place
C6_Witness ==
    /\ Len(history) = 2
    /\ Opened = {1, 2}
    /\ history[1].sec # history[2].sec
    /\ InPlace(1)
    /\ InPlace(2)
    /\ pc = "exited"

FailureTitles == {"Failed to load dataset", "Report generation failed"}

\* this step shows one of the error boxes of a failed operation
FailureShown ==
    /\ Len(shown') = Len(shown) + 1
    /\ Last(shown') \in FailureTitles

\* a failure the status line tells of was also shown in an error box
FailureDisplayed ==
    /\ status_var = "Dataset loading failed." => "Failed to load dataset" \in SeqToSet(shown)
    /\ status_var = "Report generation failed." => "Report generation failed" \in SeqToSet(shown)

\* C9: a failed load or report generation is displayed, and the step that
\* reports it, like every step of a report generation started from the
\* window, leaves _json_path, path_var and _gui as they were.
C9_FailureKeepsState ==
    /\ []FailureDisplayed
    /\ [][(FailureShown \/ (caller = "gui" /\ pc # "idle"))
             => UNCHANGED <<gui_path, path_var, gui_handle>>]_vars

\* C9 witness: with p1 selected and open in the viewer, a failed operation
\* was reported, and p1 is still selected, displayed and loadable
C9_Witness ==
    /\ gui_path = "p1"
    /\ path_var = "p1"
    /\ gui_handle = 1
    /\ shown # <<>>
    /\ Last(shown) = "Failed to load dataset"
    /\ status_var = "Dataset loading failed."
    /\ load_json_dataset("p1").exc = "none"

====
